---- MODULE Spec2Model ----
(***************************************************************************)
(* A model of gpx-normalize: normalizeGPX (src/gpxutils.go) resamples the  *)
(* first segment of the first track of a GPX file to numTargetPoints       *)
(* points that are equidistant along the path; main (src/unnamed/part_000) *)
(* runs one goroutine per file argument and waits for all of them.         *)
(*                                                                         *)
(* float64 values are modelled as exact rationals <<num, den>> in lowest   *)
(* terms with den > 0 (den = 0 stands for NaN), so rounding error is not   *)
(* part of the model.  The source fixes numTargetPoints at 1000; the model *)
(* lets it range over 2..MaxTargetCount (variable targetCount).            *)
(***************************************************************************)
EXTENDS Integers, Sequences, FiniteSets, Bags, TLC

\* ---------------------------------------------------------------- bounds
MaxPoints == 3
MaxTargetCount == 4
MaxFiles == 2

\* ------------------------------------------------------------- rationals
RECURSIVE GCD(_, _)
GCD(a, b) == IF b = 0 THEN a ELSE GCD(b, a % b)

Abs(n) == IF n < 0 THEN -n ELSE n

\* float64 value n/d, kept in lowest terms; d = 0 is NaN
Rat(n, d) ==
    IF d = 0 THEN <<0, 0>>
    ELSE LET g == GCD(Abs(n), Abs(d))
             s == IF d < 0 THEN -1 ELSE 1
         IN  <<s * (n \div g), s * (d \div g)>>

FromInt(n) == <<n, 1>>
RAdd(x, y) == Rat(x[1] * y[2] + y[1] * x[2], x[2] * y[2])
RSub(x, y) == Rat(x[1] * y[2] - y[1] * x[2], x[2] * y[2])
RMul(x, y) == Rat(x[1] * y[1], x[2] * y[2])
RDiv(x, y) == Rat(x[1] * y[2], x[2] * y[1])
RLess(x, y) == x[1] * y[2] < y[1] * x[2]
RLeq(x, y) == x[1] * y[2] <= y[1] * x[2]
IsNaN(x) == x[2] = 0
Zero == FromInt(0)
One == FromInt(1)

\* math.Sqrt on the values the model meets: squares of rationals
ISqrt(n) == CHOOSE r \in 0..n : r * r = n
RSqrt(x) == Rat(ISqrt(x[1]), ISqrt(x[2]))

\* ---------------------------------------------------------------- points
\* gpx.NullableFloat64: the zero value is invalid with value 0
NoElevation == [Valid |-> FALSE, Value |-> Zero]
NewNullableFloat64(v) == [Valid |-> TRUE, Value |-> v]

\* Positions of source points: the corners of a 3-4-5 triangle, so that every
\* segment length is a rational number (axis-aligned and diagonal segments).
Positions == {<<0, 0>>, <<0, 4>>, <<3, 0>>}
Elevations == {NoElevation, NewNullableFloat64(FromInt(0)), NewNullableFloat64(FromInt(10))}

\* gpx.GPXPoint; the j-th source point carries timestamp j, the zero time is 0
GPXPoint(lat, lon, ele, ts) ==
    [Latitude |-> lat, Longitude |-> lon, Elevation |-> ele, Timestamp |-> ts]

\* planar distance between two points (gpx.GPXPoint.Distance2D)
Distance2D(p, q) ==
    LET dlat == RSub(p.Latitude, q.Latitude)
        dlon == RSub(p.Longitude, q.Longitude)
    IN  RSqrt(RAdd(RMul(dlat, dlat), RMul(dlon, dlon)))

\* gpx.GPXTrackSegment.Length2D: the sum of the distances of consecutive points
RECURSIVE Length2D(_)
Length2D(points) ==
    IF Len(points) < 2 THEN Zero
    ELSE RAdd(Length2D(SubSeq(points, 1, Len(points) - 1)),
              Distance2D(points[Len(points)], points[Len(points) - 1]))

\* ---------------------------------------------------------------- inputs
PathsOfLen(n) ==
    {[j \in 1..n |-> GPXPoint(FromInt(f[j][1][1]), FromInt(f[j][1][2]), f[j][2], j)] :
        f \in [1..n -> Positions \X Elevations]}
Paths == UNION {PathsOfLen(n) : n \in 0..MaxPoints}

\* A further segment and a further track, which normalizeGPX is to ignore:
\* their points lie off the triangle of Positions and carry an elevation and
\* timestamps that no point of the first segment has.
DecoySegment ==
    [Points |-> <<GPXPoint(FromInt(6), FromInt(8), NewNullableFloat64(FromInt(77)), 98),
                  GPXPoint(FromInt(6), FromInt(0), NewNullableFloat64(FromInt(77)), 99)>>]
DecoyTrack == [Segments |-> <<DecoySegment>>]

\* gpxFile.Tracks: no track, a first track without segments (alone or followed
\* by a track that has one), or a first track whose first segment is any path,
\* alone or followed by a further segment and a further track
TrackLists ==
    {<<>>, <<[Segments |-> <<>>]>>, <<[Segments |-> <<>>], DecoyTrack>>}
    \cup {<<[Segments |-> <<[Points |-> pts]>>]>> : pts \in Paths}
    \cup {<<[Segments |-> <<[Points |-> pts], DecoySegment>>], DecoyTrack>> : pts \in Paths}

\* what os.ReadFile and gpx.ParseBytes make of the input file
InputFiles ==
    {[readable |-> FALSE, parseable |-> FALSE, Tracks |-> <<>>],
     [readable |-> TRUE, parseable |-> FALSE, Tracks |-> <<>>]}
    \cup {[readable |-> TRUE, parseable |-> TRUE, Tracks |-> t] : t \in TrackLists}

\* ----------------------------------------------------------------- state
VARIABLES
    inputFile,          \* content of the file at path inputFile
    outputFile,         \* content of the file at path outputFile
    targetCount,        \* numTargetPoints
    pc,                 \* position in normalizeGPX
    err,                \* the error normalizeGPX returns ("none": nil)
    sourcePoints,       \* segment.Points
    newGpx,             \* the GPX object being built
    totalDistance,
    intervalDistance,
    cumulativeDistance,
    originalPointIndex, \* 0-based, as in the source
    i,                  \* output index of the loops, 0-based
    targetDistForCurrentPoint

nvars == <<inputFile, outputFile, targetCount, pc, err, sourcePoints, newGpx,
           totalDistance, intervalDistance, cumulativeDistance,
           originalPointIndex, i, targetDistForCurrentPoint>>

\* the state of main and of its goroutines
VARIABLES
    files,      \* flag.Args()
    fs,         \* the file system: path -> what a reader finds there
    mainPc,     \* position in main
    nextFile,   \* 1-based index of the range loop over files
    wg,         \* the counter of the sync.WaitGroup
    workers,    \* the goroutines, one per index of files
    log         \* the lines written by the log package, as a bag: the order
                \* of the lines of different goroutines is not kept

mvars == <<files, fs, mainPc, nextFile, wg, workers, log>>

vars == <<nvars, mvars>>

\* main is not running: normalizeGPX is followed on its own
MainIdle ==
    /\ files = <<>>
    /\ fs = <<>>
    /\ mainPc = "idle"
    /\ nextFile = 0
    /\ wg = 0
    /\ workers = <<>>
    /\ log = EmptyBag

\* *newSegmentPoints: the points of the one segment of the one track of newGpx
NewSegmentPoints == newGpx.Tracks[1].Segments[1].Points

\* 0-based indexing of a Go slice
At(s, k) == s[k + 1]

\* a GPX object without tracks (the zero value of gpx.GPX)
NoGpx == [Creator |-> "", Tracks |-> <<>>]

\* a file: absent, as it was before the call (stale), truncated by a failed
\* write, or written with the XML of a GPX object
File(state, gpx) == [state |-> state, gpx |-> gpx]

Init ==
    /\ inputFile \in InputFiles
    /\ outputFile \in {File("absent", NoGpx), File("stale", NoGpx)}
    /\ targetCount \in 2..MaxTargetCount
    /\ pc = "read"
    /\ err = "none"
    /\ sourcePoints = <<>>
    /\ newGpx = NoGpx
    /\ totalDistance = Zero
    /\ intervalDistance = Zero
    /\ cumulativeDistance = Zero
    /\ originalPointIndex = 0
    /\ i = 0
    /\ targetDistForCurrentPoint = Zero
    /\ MainIdle

\* mutant: the error is set but the function goes on to write the file
FailWithoutReturn(e) ==
    /\ err' = e
    /\ pc' = "write"

\* return fmt.Errorf(...)
Fail(e) ==
    /\ err' = e
    /\ pc' = "done"

\* ------------------------------------------------- normalizeGPX, pre-checks
\* os.ReadFile(inputFile)
ReadFile ==
    /\ pc = "read"
    /\ IF ~inputFile.readable THEN Fail("read") ELSE pc' = "parse" /\ err' = err
    /\ UNCHANGED mvars
    /\ UNCHANGED <<inputFile, outputFile, targetCount, sourcePoints, newGpx,
                   totalDistance, intervalDistance, cumulativeDistance,
                   originalPointIndex, i, targetDistForCurrentPoint>>

\* gpx.ParseBytes(gpxData)
ParseBytes ==
    /\ pc = "parse"
    /\ IF ~inputFile.parseable THEN Fail("parse") ELSE pc' = "tracks" /\ err' = err
    /\ UNCHANGED mvars
    /\ UNCHANGED <<inputFile, outputFile, targetCount, sourcePoints, newGpx,
                   totalDistance, intervalDistance, cumulativeDistance,
                   originalPointIndex, i, targetDistForCurrentPoint>>

\* len(gpxFile.Tracks) == 0
CheckTracks ==
    /\ pc = "tracks"
    /\ IF Len(inputFile.Tracks) = 0 THEN Fail("notracks")
       ELSE pc' = "segments" /\ err' = err
    /\ UNCHANGED mvars
    /\ UNCHANGED <<inputFile, outputFile, targetCount, sourcePoints, newGpx,
                   totalDistance, intervalDistance, cumulativeDistance,
                   originalPointIndex, i, targetDistForCurrentPoint>>

\* mutant: the last segment of the last track is taken
LastSegmentPoints(gpxFile) ==
    LET track == gpxFile.Tracks[Len(gpxFile.Tracks)]
    IN  track.Segments[Len(track.Segments)].Points

\* track := &gpxFile.Tracks[0]; segment := &track.Segments[0]; segment.Points
FirstSegmentPoints(gpxFile) == gpxFile.Tracks[1].Segments[1].Points

\* len(track.Segments) == 0, else sourcePoints := segment.Points
CheckSegments ==
    /\ pc = "segments"
    /\ IF Len(inputFile.Tracks[1].Segments) = 0
       THEN Fail("nosegments") /\ sourcePoints' = sourcePoints
       ELSE /\ pc' = "points"
            /\ err' = err
            /\ sourcePoints' = FirstSegmentPoints(inputFile)
    /\ UNCHANGED mvars
    /\ UNCHANGED <<inputFile, outputFile, targetCount, newGpx,
                   totalDistance, intervalDistance, cumulativeDistance,
                   originalPointIndex, i, targetDistForCurrentPoint>>

\* mutant: a segment of one point is accepted
NotEnoughPointsOffByOne(points) == Len(points) < 1

\* the segment has fewer than 2 points
NotEnoughPoints(points) == Len(points) < 2

CheckPoints ==
    /\ pc = "points"
    /\ IF NotEnoughPoints(sourcePoints) THEN Fail("notenough")
       ELSE pc' = "newgpx" /\ err' = err
    /\ UNCHANGED mvars
    /\ UNCHANGED <<inputFile, outputFile, targetCount, sourcePoints, newGpx,
                   totalDistance, intervalDistance, cumulativeDistance,
                   originalPointIndex, i, targetDistForCurrentPoint>>

\* the new GPX object with one track holding one empty segment, and
\* totalDistance := segment.Length2D()
EmptyGpx ==
    [Creator |-> "gpx-normalizer",
     Tracks |-> <<[Segments |-> <<[Points |-> <<>>]>>]>>]

NewGpx ==
    /\ pc = "newgpx"
    /\ newGpx' = EmptyGpx
    /\ totalDistance' = Length2D(sourcePoints)
    /\ pc' = "branch"
    /\ UNCHANGED mvars
    /\ UNCHANGED <<inputFile, outputFile, targetCount, err, sourcePoints,
                   intervalDistance, cumulativeDistance,
                   originalPointIndex, i, targetDistForCurrentPoint>>

\* mutant: every append adds the point twice
AppendPointTwice(g, p) ==
    [g EXCEPT !.Tracks[1].Segments[1].Points = Append(Append(@, p), p)]

\* *newSegmentPoints = append(*newSegmentPoints, p)
AppendPoint(g, p) ==
    [g EXCEPT !.Tracks[1].Segments[1].Points = Append(@, p)]

\* ------------------------------------------- normalizeGPX, zero distance
ZeroBranch ==
    /\ pc = "branch"
    /\ totalDistance = Zero
    /\ i' = 0
    /\ pc' = IF Len(sourcePoints) > 0 THEN "zeroloop" ELSE "safeguard"
    /\ UNCHANGED mvars
    /\ UNCHANGED <<inputFile, outputFile, targetCount, err, sourcePoints, newGpx,
                   totalDistance, intervalDistance, cumulativeDistance,
                   originalPointIndex, targetDistForCurrentPoint>>

\* mutant: the zero-distance branch copies the last source point
FirstPointIsLast(points) == At(points, Len(points) - 1)

\* firstPoint := sourcePoints[0]
FirstPoint(points) == At(points, 0)

\* one iteration of the loop appending firstPoint
ZeroFill ==
    /\ pc = "zeroloop"
    /\ i < targetCount
    /\ newGpx' = AppendPoint(newGpx, FirstPoint(sourcePoints))
    /\ i' = i + 1
    /\ UNCHANGED mvars
    /\ UNCHANGED <<inputFile, outputFile, targetCount, pc, err, sourcePoints,
                   totalDistance, intervalDistance, cumulativeDistance,
                   originalPointIndex, targetDistForCurrentPoint>>

ZeroFillExit ==
    /\ pc = "zeroloop"
    /\ ~(i < targetCount)
    /\ pc' = "safeguard"
    /\ UNCHANGED mvars
    /\ UNCHANGED <<inputFile, outputFile, targetCount, err, sourcePoints, newGpx,
                   totalDistance, intervalDistance, cumulativeDistance,
                   originalPointIndex, i, targetDistForCurrentPoint>>

\* ------------------------------------------- normalizeGPX, general case
\* mutant: the interval divides by the number of points, not of intervals
IntervalDistanceOffByOne(total, n) == RDiv(total, FromInt(n))

\* intervalDistance := totalDistance / float64(numTargetPoints-1)
IntervalDistance(total, n) == RDiv(total, FromInt(n - 1))

GeneralBranch ==
    /\ pc = "branch"
    /\ totalDistance # Zero
    /\ intervalDistance' = IntervalDistance(totalDistance, targetCount)
    /\ cumulativeDistance' = Zero
    /\ originalPointIndex' = 0
    /\ i' = 0
    /\ pc' = "loop"
    /\ UNCHANGED mvars
    /\ UNCHANGED <<inputFile, outputFile, targetCount, err, sourcePoints, newGpx,
                   totalDistance, targetDistForCurrentPoint>>

\* i == 0: newPoint = sourcePoints[0]
LoopFirst ==
    /\ pc = "loop"
    /\ i < targetCount
    /\ i = 0
    /\ newGpx' = AppendPoint(newGpx, At(sourcePoints, 0))
    /\ i' = i + 1
    /\ UNCHANGED mvars
    /\ UNCHANGED <<inputFile, outputFile, targetCount, pc, err, sourcePoints,
                   totalDistance, intervalDistance, cumulativeDistance,
                   originalPointIndex, targetDistForCurrentPoint>>

\* mutant: the last output point is the second-to-last source point
LastSourcePointOffByOne(points) == At(points, Len(points) - 2)

\* sourcePoints[len(sourcePoints)-1]
LastSourcePoint(points) == At(points, Len(points) - 1)

\* i == numTargetPoints-1: newPoint = sourcePoints[len(sourcePoints)-1]
LoopLast ==
    /\ pc = "loop"
    /\ i < targetCount
    /\ i # 0
    /\ i = targetCount - 1
    /\ newGpx' = AppendPoint(newGpx, LastSourcePoint(sourcePoints))
    /\ i' = i + 1
    /\ UNCHANGED mvars
    /\ UNCHANGED <<inputFile, outputFile, targetCount, pc, err, sourcePoints,
                   totalDistance, intervalDistance, cumulativeDistance,
                   originalPointIndex, targetDistForCurrentPoint>>

\* otherwise: targetDistForCurrentPoint := float64(i) * intervalDistance
LoopTarget ==
    /\ pc = "loop"
    /\ i < targetCount
    /\ i # 0
    /\ i # targetCount - 1
    /\ targetDistForCurrentPoint' = RMul(FromInt(i), intervalDistance)
    /\ pc' = "advance"
    /\ UNCHANGED mvars
    /\ UNCHANGED <<inputFile, outputFile, targetCount, err, sourcePoints, newGpx,
                   totalDistance, intervalDistance, cumulativeDistance,
                   originalPointIndex, i>>

\* the condition of the inner loop that advances originalPointIndex
AdvanceCondition(points, index, cumulative, target) ==
    /\ index < Len(points) - 2
    /\ RLess(RAdd(cumulative, Distance2D(At(points, index), At(points, index + 1))),
             target)

\* mutant: the cursor advances without adding the segment's length
AdvanceCursorNoAccumulate ==
    /\ pc = "advance"
    /\ AdvanceCondition(sourcePoints, originalPointIndex, cumulativeDistance,
                        targetDistForCurrentPoint)
    /\ originalPointIndex' = originalPointIndex + 1
    /\ UNCHANGED mvars
    /\ UNCHANGED <<inputFile, outputFile, targetCount, pc, err, sourcePoints, newGpx,
                   totalDistance, intervalDistance, cumulativeDistance, i,
                   targetDistForCurrentPoint>>

\* one iteration of the inner loop
AdvanceCursor ==
    /\ pc = "advance"
    /\ AdvanceCondition(sourcePoints, originalPointIndex, cumulativeDistance,
                        targetDistForCurrentPoint)
    /\ cumulativeDistance' =
           RAdd(cumulativeDistance,
                Distance2D(At(sourcePoints, originalPointIndex),
                           At(sourcePoints, originalPointIndex + 1)))
    /\ originalPointIndex' = originalPointIndex + 1
    /\ UNCHANGED mvars
    /\ UNCHANGED <<inputFile, outputFile, targetCount, pc, err, sourcePoints, newGpx,
                   totalDistance, intervalDistance, i, targetDistForCurrentPoint>>

\* mutant: the distance to p1 is not subtracted from the target distance
RawRatioNoOffset(p1, p2, target, distToP1) ==
    LET distP1P2 == Distance2D(p1, p2)
    IN  IF RLess(Zero, distP1P2) THEN RDiv(target, distP1P2) ELSE Zero

\* ratio before clamping: 0 when p1 and p2 coincide
RawRatio(p1, p2, target, distToP1) ==
    LET distP1P2 == Distance2D(p1, p2)
    IN  IF RLess(Zero, distP1P2)
        THEN RDiv(RSub(target, distToP1), distP1P2)
        ELSE Zero

\* clamp to [0, 1]
Clamp(ratio) ==
    IF RLess(ratio, Zero) THEN Zero
    ELSE IF RLess(One, ratio) THEN One
    ELSE ratio

Ratio(p1, p2, target, distToP1) == Clamp(RawRatio(p1, p2, target, distToP1))

Lerp(a, b, ratio) == RAdd(a, RMul(ratio, RSub(b, a)))

\* mutant: the elevation is always set, to 0 when neither source has one
NewElevationAlwaysValid(p1, p2, ratio) ==
    IF p1.Elevation.Valid /\ p2.Elevation.Valid
    THEN NewNullableFloat64(Lerp(p1.Elevation.Value, p2.Elevation.Value, ratio))
    ELSE IF p1.Elevation.Valid THEN NewNullableFloat64(p1.Elevation.Value)
    ELSE IF p2.Elevation.Valid THEN NewNullableFloat64(p2.Elevation.Value)
    ELSE NewNullableFloat64(Zero)

\* elevation of the interpolated point
NewElevation(p1, p2, ratio) ==
    IF p1.Elevation.Valid /\ p2.Elevation.Valid
    THEN NewNullableFloat64(Lerp(p1.Elevation.Value, p2.Elevation.Value, ratio))
    ELSE IF p1.Elevation.Valid THEN NewNullableFloat64(p1.Elevation.Value)
    ELSE IF p2.Elevation.Valid THEN NewNullableFloat64(p2.Elevation.Value)
    ELSE NoElevation

\* mutant: the interpolated point takes the timestamp of p2
NewPointTimestampOfP2(p1, p2, ratio) ==
    GPXPoint(Lerp(p1.Latitude, p2.Latitude, ratio),
             Lerp(p1.Longitude, p2.Longitude, ratio),
             NewElevation(p1, p2, ratio),
             p2.Timestamp)

\* the interpolated point between p1 and p2
NewPoint(p1, p2, ratio) ==
    LET newLat == Lerp(p1.Latitude, p2.Latitude, ratio)
        newLon == Lerp(p1.Longitude, p2.Longitude, ratio)
        nan == IsNaN(newLat) \/ IsNaN(newLon)
    IN  GPXPoint(IF nan THEN p1.Latitude ELSE newLat,
                 IF nan THEN p1.Longitude ELSE newLon,
                 NewElevation(p1, p2, ratio),
                 p1.Timestamp)

\* the inner loop has ended: interpolate between p1 and p2 and append
Interpolate ==
    /\ pc = "advance"
    /\ ~AdvanceCondition(sourcePoints, originalPointIndex, cumulativeDistance,
                         targetDistForCurrentPoint)
    /\ LET p1 == At(sourcePoints, originalPointIndex)
           p2 == At(sourcePoints, originalPointIndex + 1)
           ratio == Ratio(p1, p2, targetDistForCurrentPoint, cumulativeDistance)
       IN  newGpx' = AppendPoint(newGpx, NewPoint(p1, p2, ratio))
    /\ i' = i + 1
    /\ pc' = "loop"
    /\ UNCHANGED mvars
    /\ UNCHANGED <<inputFile, outputFile, targetCount, err, sourcePoints,
                   totalDistance, intervalDistance, cumulativeDistance,
                   originalPointIndex, targetDistForCurrentPoint>>

LoopExit ==
    /\ pc = "loop"
    /\ ~(i < targetCount)
    /\ pc' = "safeguard"
    /\ UNCHANGED mvars
    /\ UNCHANGED <<inputFile, outputFile, targetCount, err, sourcePoints, newGpx,
                   totalDistance, intervalDistance, cumulativeDistance,
                   originalPointIndex, i, targetDistForCurrentPoint>>

\* ------------------------------------------------ normalizeGPX, the end
RECURSIVE PadTo(_, _, _)
PadTo(points, n, lastPt) ==
    IF Len(points) < n THEN PadTo(Append(points, lastPt), n, lastPt) ELSE points

\* mutant: the truncation keeps one point too few
SafeguardedOffByOne(points, n, nSource) ==
    IF Len(points) < n - 1 /\ nSource > 0
    THEN PadTo(points, n - 1, points[Len(points)])
    ELSE IF Len(points) > n - 1 THEN SubSeq(points, 1, n - 1)
    ELSE points

\* pad with the last generated point, or truncate, to numTargetPoints
Safeguarded(points, n, nSource) ==
    IF Len(points) < n /\ nSource > 0
    THEN PadTo(points, n, points[Len(points)])
    ELSE IF Len(points) > n THEN SubSeq(points, 1, n)
    ELSE points

Safeguard ==
    /\ pc = "safeguard"
    /\ newGpx' = [newGpx EXCEPT !.Tracks[1].Segments[1].Points =
                      Safeguarded(@, targetCount, Len(sourcePoints))]
    /\ pc' = "toxml"
    /\ UNCHANGED mvars
    /\ UNCHANGED <<inputFile, outputFile, targetCount, err, sourcePoints,
                   totalDistance, intervalDistance, cumulativeDistance,
                   originalPointIndex, i, targetDistForCurrentPoint>>

\* newGpx.ToXml: xmlBytes or an error
ToXml ==
    /\ pc = "toxml"
    /\ \E ok \in BOOLEAN :
           IF ok THEN pc' = "write" /\ err' = err ELSE Fail("toxml")
    /\ UNCHANGED mvars
    /\ UNCHANGED <<inputFile, outputFile, targetCount, sourcePoints, newGpx,
                   totalDistance, intervalDistance, cumulativeDistance,
                   originalPointIndex, i, targetDistForCurrentPoint>>

\* os.WriteFile(outputFile, xmlBytes, 0644): the file holds the new GPX, or the
\* call fails before opening the file (unchanged) or after truncating it
WriteFile ==
    /\ pc = "write"
    /\ \/ /\ outputFile' = File("written", newGpx)
          /\ err' = err
          /\ pc' = "done"
       \/ /\ outputFile' \in {outputFile, File("truncated", NoGpx)}
          /\ Fail("write")
    /\ UNCHANGED mvars
    /\ UNCHANGED <<inputFile, targetCount, sourcePoints, newGpx,
                   totalDistance, intervalDistance, cumulativeDistance,
                   originalPointIndex, i, targetDistForCurrentPoint>>

Next ==
    \/ ReadFile \/ ParseBytes \/ CheckTracks \/ CheckSegments \/ CheckPoints
    \/ NewGpx \/ ZeroBranch \/ ZeroFill \/ ZeroFillExit
    \/ GeneralBranch \/ LoopFirst \/ LoopLast \/ LoopTarget
    \/ AdvanceCursor \/ Interpolate \/ LoopExit
    \/ Safeguard \/ ToXml \/ WriteFile

Spec == Init /\ [][Next]_vars

\* ------------------------------------------------------------------ main
\* A path: a directory and a base name, the base name a stem with a number
\* of "normalized-" prefixes.
Path(dir, prefixes, stem) == [dir |-> dir, prefixes |-> prefixes, stem |-> stem]
NoPath == Path("", 0, "")

\* filepath.Dir, filepath.Base, "normalized-"+base and filepath.Join
Dir(file) == file.dir
Base(file) == [prefixes |-> file.prefixes, stem |-> file.stem]
Normalized(base) == [base EXCEPT !.prefixes = @ + 1]
Join(dir, base) == Path(dir, base.prefixes, base.stem)

\* outputFile := filepath.Join(dir, "normalized-"+base)
OutputFileOf(file) == Join(Dir(file), Normalized(Base(file)))

\* the file arguments of the model: x.gpx, normalized-x.gpx and y.gpx of one
\* directory
ArgPaths == {Path("d", 0, "x"), Path("d", 1, "x"), Path("d", 0, "y")}
AllPaths == ArgPaths \cup {OutputFileOf(f) : f \in ArgPaths}

\* What a reader finds at a path: nothing ("missing": os.ReadFile fails), a
\* file normalizeGPX rejects ("invalid": it does not parse, or has no track, no
\* segment or fewer than 2 points), a GPX track of at least 2 points
\* ("track"), the output of normalizeGPX ("normalized"), or a file that
\* os.WriteFile has opened with O_TRUNC and not yet written ("truncated").
InitialKinds == {"missing", "invalid", "track"}

Range(seq) == {seq[k] : k \in 1..Len(seq)}

Worker(wpc, file, outputPath, data, e) ==
    [pc |-> wpc, file |-> file, outputFile |-> outputPath, data |-> data, err |-> e]

\* normalizeGPX is not running: main is followed with normalizeGPX reduced to
\* its reads and writes of files
NormalizeIdle ==
    /\ inputFile = [readable |-> FALSE, parseable |-> FALSE, Tracks |-> <<>>]
    /\ outputFile = File("absent", NoGpx)
    /\ targetCount = 2
    /\ pc = "idle"
    /\ err = "none"
    /\ sourcePoints = <<>>
    /\ newGpx = NoGpx
    /\ totalDistance = Zero
    /\ intervalDistance = Zero
    /\ cumulativeDistance = Zero
    /\ originalPointIndex = 0
    /\ i = 0
    /\ targetDistForCurrentPoint = Zero

InitMain ==
    /\ files \in UNION {[1..n -> ArgPaths] : n \in 0..MaxFiles}
    /\ fs \in {f \in [AllPaths -> InitialKinds] :
                  \A p \in AllPaths : p \notin Range(files) => f[p] = "missing"}
    /\ mainPc = "args"
    /\ nextFile = 1
    /\ wg = 0
    /\ workers = [k \in 1..Len(files) |-> Worker("unborn", NoPath, NoPath, "missing", "none")]
    /\ log = EmptyBag
    /\ NormalizeIdle

\* len(files) == 0: print the usage and os.Exit(1)
Usage ==
    /\ mainPc = "args"
    /\ Len(files) = 0
    /\ mainPc' = "exited"
    /\ UNCHANGED <<files, fs, nextFile, wg, workers, log>>
    /\ UNCHANGED nvars

\* log.Printf("Starting normalization for %d GPX file(s)...")
Starting ==
    /\ mainPc = "args"
    /\ Len(files) # 0
    /\ log' = log (+) SetToBag({<<"Starting", Len(files)>>})
    /\ mainPc' = "range"
    /\ UNCHANGED <<files, fs, nextFile, wg, workers>>
    /\ UNCHANGED nvars

\* one iteration of the range loop: wg.Add(1) and go func(file)
Spawn ==
    /\ mainPc = "range"
    /\ nextFile <= Len(files)
    /\ wg' = wg + 1
    /\ workers' = [workers EXCEPT ![nextFile] =
                       Worker("processing", files[nextFile], NoPath, "missing", "none")]
    /\ nextFile' = nextFile + 1
    /\ UNCHANGED <<files, fs, mainPc, log>>
    /\ UNCHANGED nvars

RangeExit ==
    /\ mainPc = "range"
    /\ nextFile > Len(files)
    /\ mainPc' = "wait"
    /\ UNCHANGED <<files, fs, nextFile, wg, workers, log>>
    /\ UNCHANGED nvars

\* mutant: main does not wait for the counter to reach zero
WaitWithoutBarrier ==
    /\ mainPc = "wait"
    /\ mainPc' = "final"
    /\ UNCHANGED <<files, fs, nextFile, wg, workers, log>>
    /\ UNCHANGED nvars

\* wg.Wait() returns when the counter is zero
Wait ==
    /\ mainPc = "wait"
    /\ wg = 0
    /\ mainPc' = "final"
    /\ UNCHANGED <<files, fs, nextFile, wg, workers, log>>
    /\ UNCHANGED nvars

\* log.Println("All GPX files processed.") and return
AllProcessed ==
    /\ mainPc = "final"
    /\ log' = log (+) SetToBag({<<"All", 0>>})
    /\ mainPc' = "returned"
    /\ UNCHANGED <<files, fs, nextFile, wg, workers>>
    /\ UNCHANGED nvars

\* ---- the goroutine of files[k]
\* log.Printf("Processing %s...") and the output file name
Processing(k) ==
    /\ workers[k].pc = "processing"
    /\ log' = log (+) SetToBag({<<"Processing", k>>})
    /\ workers' = [workers EXCEPT ![k].pc = "read",
                                  ![k].outputFile = OutputFileOf(workers[k].file)]
    /\ UNCHANGED <<files, fs, mainPc, nextFile, wg>>
    /\ UNCHANGED nvars

\* normalizeGPX: os.ReadFile(inputFile)
WorkerRead(k) ==
    /\ workers[k].pc = "read"
    /\ workers' = IF fs[workers[k].file] = "missing"
                  THEN [workers EXCEPT ![k].pc = "report", ![k].err = "read"]
                  ELSE [workers EXCEPT ![k].pc = "resample",
                                       ![k].data = fs[workers[k].file]]
    /\ UNCHANGED <<files, fs, mainPc, nextFile, wg, log>>
    /\ UNCHANGED nvars

\* normalizeGPX from gpx.ParseBytes to newGpx.ToXml, on the bytes read
WorkerResample(k) ==
    /\ workers[k].pc = "resample"
    /\ IF workers[k].data \in {"invalid", "truncated"}
       THEN workers' = [workers EXCEPT ![k].pc = "report", ![k].err = "input"]
       ELSE \E ok \in BOOLEAN :
                workers' = IF ok THEN [workers EXCEPT ![k].pc = "open"]
                           ELSE [workers EXCEPT ![k].pc = "report", ![k].err = "toxml"]
    /\ UNCHANGED <<files, fs, mainPc, nextFile, wg, log>>
    /\ UNCHANGED nvars

\* normalizeGPX: os.WriteFile opens the output file with O_TRUNC, or fails
WorkerOpen(k) ==
    /\ workers[k].pc = "open"
    /\ \/ /\ fs' = [fs EXCEPT ![workers[k].outputFile] = "truncated"]
          /\ workers' = [workers EXCEPT ![k].pc = "write"]
       \/ /\ fs' = fs
          /\ workers' = [workers EXCEPT ![k].pc = "report", ![k].err = "write"]
    /\ UNCHANGED <<files, mainPc, nextFile, wg, log>>
    /\ UNCHANGED nvars

\* normalizeGPX: os.WriteFile writes the XML and closes the file, or fails
WorkerWrite(k) ==
    /\ workers[k].pc = "write"
    /\ \/ /\ fs' = [fs EXCEPT ![workers[k].outputFile] = "normalized"]
          /\ workers' = [workers EXCEPT ![k].pc = "report"]
       \/ /\ fs' = fs
          /\ workers' = [workers EXCEPT ![k].pc = "report", ![k].err = "write"]
    /\ UNCHANGED <<files, mainPc, nextFile, wg, log>>
    /\ UNCHANGED nvars

\* log.Printf("Error normalizing ...") or log.Printf("Successfully normalized ...")
Report(k) ==
    /\ workers[k].pc = "report"
    /\ log' = log (+) SetToBag({<<IF workers[k].err # "none" THEN "Error" ELSE "Success", k>>})
    /\ workers' = [workers EXCEPT ![k].pc = "deferred"]
    /\ UNCHANGED <<files, fs, mainPc, nextFile, wg>>
    /\ UNCHANGED nvars

\* the deferred wg.Done()
Done(k) ==
    /\ workers[k].pc = "deferred"
    /\ wg' = wg - 1
    /\ workers' = [workers EXCEPT ![k].pc = "done"]
    /\ UNCHANGED <<files, fs, mainPc, nextFile, log>>
    /\ UNCHANGED nvars

WorkerStep(k) ==
    \/ Processing(k) \/ WorkerRead(k) \/ WorkerResample(k)
    \/ WorkerOpen(k) \/ WorkerWrite(k) \/ Report(k) \/ Done(k)

NextMain ==
    \/ Usage \/ Starting \/ Spawn \/ RangeExit \/ Wait \/ AllProcessed
    \/ \E k \in 1..Len(files) : Processing(k)
    \/ \E k \in 1..Len(files) : WorkerRead(k)
    \/ \E k \in 1..Len(files) : WorkerResample(k)
    \/ \E k \in 1..Len(files) : WorkerOpen(k)
    \/ \E k \in 1..Len(files) : WorkerWrite(k)
    \/ \E k \in 1..Len(files) : Report(k)
    \/ \E k \in 1..Len(files) : Done(k)

SpecMain == InitMain /\ [][NextMain]_vars

\* the Go scheduler runs every goroutine that can take a step
FairSpecMain == SpecMain /\ WF_vars(NextMain)

\* ================================================================ claims
InputErrors == {"read", "parse", "notracks", "nosegments", "notenough"}

\* the loops and the safeguard are over: the output has been built
Built ==
    \/ pc \in {"toxml", "write"}
    \/ pc = "done" /\ err \notin InputErrors

\* normalizeGPX has returned nil
Succeeded == pc = "done" /\ err = "none"

\* C1: once the output of a path with at least 2 points has been built, it has
\* exactly targetCount points, whether the path length is zero or positive, and
\* a successful call has written a file with exactly targetCount points.
C1_ExactCount ==
    /\ Built => Len(sourcePoints) >= 2 /\ Len(NewSegmentPoints) = targetCount
    /\ Succeeded => /\ outputFile.state = "written"
                    /\ Len(outputFile.gpx.Tracks[1].Segments[1].Points) = targetCount

\* a successful call on a 3-point path of positive length with the largest
\* target count
C1_Witness ==
    /\ Succeeded
    /\ totalDistance # Zero
    /\ Len(sourcePoints) = MaxPoints
    /\ originalPointIndex > 0
    /\ targetCount = MaxTargetCount
    /\ Len(NewSegmentPoints) = MaxTargetCount

SamePosition(p, q) == p.Latitude = q.Latitude /\ p.Longitude = q.Longitude

\* C2: the first output point has the position of the first input point and the
\* last output point has the position of the last input point, in the
\* zero-length branch and in the general branch.
C2_Endpoints ==
    Built =>
        /\ SamePosition(NewSegmentPoints[1], sourcePoints[1])
        /\ SamePosition(NewSegmentPoints[Len(NewSegmentPoints)],
                        sourcePoints[Len(sourcePoints)])

\* a built output of a path whose first, second-to-last and last points differ
C2_Witness ==
    /\ Built
    /\ Len(sourcePoints) = MaxPoints
    /\ ~SamePosition(sourcePoints[1], sourcePoints[Len(sourcePoints)])
    /\ ~SamePosition(sourcePoints[Len(sourcePoints) - 1], sourcePoints[Len(sourcePoints)])
    /\ SamePosition(NewSegmentPoints[targetCount], sourcePoints[Len(sourcePoints)])

\* ---- geometry of the claims, without square roots
SqDist(p, q) ==
    LET dlat == RSub(p.Latitude, q.Latitude)
        dlon == RSub(p.Longitude, q.Longitude)
    IN  RAdd(RMul(dlat, dlat), RMul(dlon, dlon))

Cross(a, b, c) ==
    RSub(RMul(RSub(b.Latitude, a.Latitude), RSub(c.Longitude, a.Longitude)),
         RMul(RSub(b.Longitude, a.Longitude), RSub(c.Latitude, a.Latitude)))

Dot(a, b, c) ==
    RAdd(RMul(RSub(b.Latitude, a.Latitude), RSub(c.Latitude, a.Latitude)),
         RMul(RSub(b.Longitude, a.Longitude), RSub(c.Longitude, a.Longitude)))

\* pt lies on the closed segment from a to b
OnSegment(pt, a, b) ==
    /\ Cross(a, b, pt) = Zero
    /\ RLeq(Zero, Dot(a, b, pt))
    /\ RLeq(Dot(a, b, pt), SqDist(a, b))

\* path distance from the first source point to the source point of 0-based
\* index k
CumulativeTo(k) == Length2D(SubSeq(sourcePoints, 1, k + 1))

\* the path distance the output point of 0-based index k is meant to have
TargetOf(k) ==
    RMul(FromInt(k), RDiv(Length2D(sourcePoints), FromInt(targetCount - 1)))

\* the interior output point of 0-based index i-1 has just been appended
JustInterpolated ==
    /\ pc = "loop"
    /\ 0 < i - 1
    /\ i - 1 < targetCount - 1

\* C3: an interior output point of a path of positive length lies on the
\* source segment (p1,p2) at the cursor, its target distance lies between the
\* path distance to p1 and the path distance to p2, its path distance from the
\* start equals the target distance, and the unclamped ratio is in [0,1].
C3_InteriorOnPath ==
    JustInterpolated =>
        LET p1 == At(sourcePoints, originalPointIndex)
            p2 == At(sourcePoints, originalPointIndex + 1)
            pt == At(NewSegmentPoints, i - 1)
            target == TargetOf(i - 1)
            toP1 == CumulativeTo(originalPointIndex)
            raw == RawRatio(p1, p2, target, cumulativeDistance)
        IN  /\ totalDistance # Zero
            /\ RLeq(toP1, target)
            /\ RLeq(target, RAdd(toP1, Distance2D(p1, p2)))
            /\ OnSegment(pt, p1, p2)
            /\ SqDist(p1, pt) = RMul(RSub(target, toP1), RSub(target, toP1))
            /\ RLeq(Zero, raw) /\ RLeq(raw, One)

\* an interior point strictly inside the second segment of a 3-point path
C3_Witness ==
    /\ JustInterpolated
    /\ originalPointIndex = 1
    /\ RLess(CumulativeTo(1), TargetOf(i - 1))
    /\ RLess(TargetOf(i - 1), CumulativeTo(2))
    /\ ~SamePosition(At(NewSegmentPoints, i - 1), At(sourcePoints, 1))
    /\ ~SamePosition(At(NewSegmentPoints, i - 1), At(sourcePoints, 2))

\* the relative tolerance of the equidistance check, 1%
Tolerance == <<1, 100>>

\* |sqrt(sq) - interval| <= Tolerance * interval
WithinTolerance(sq, interval) ==
    LET lo == RMul(RSub(One, Tolerance), interval)
        hi == RMul(RAdd(One, Tolerance), interval)
    IN  RLeq(RMul(lo, lo), sq) /\ RLeq(sq, RMul(hi, hi))

\* the output has just been built: the loops are over, the safeguard has run
JustBuilt == pc = "toxml"

\* the path distances to the source points, by 0-based index
CumulativeDistances == [j \in 0..(Len(sourcePoints) - 1) |-> CumulativeTo(j)]

\* the output points at path distances t and u lie on one source segment
OnOneSegment(cum, t, u) ==
    \E j \in 0..(Len(sourcePoints) - 2) : RLeq(cum[j], t) /\ RLeq(u, cum[j + 1])

\* the squared distance of the output points of 0-based indices k and k+1
SqStep(k) == SqDist(At(NewSegmentPoints, k), At(NewSegmentPoints, k + 1))

\* C4 as claimed: for a path of positive length the straight-line distance of
\* every two consecutive output points is within 1% of
\* totalLength/(targetCount-1), also across a change of direction.
C4_Equidistance_Original ==
    (JustBuilt /\ totalDistance # Zero) =>
        LET interval == TargetOf(1)
        IN  \A k \in 0..(targetCount - 2) : WithinTolerance(SqStep(k), interval)

\* C4 as amended: the straight-line distance of two consecutive output points
\* is within 1% of totalLength/(targetCount-1) when both lie on one source
\* segment, and is never more than 1% above it.
C4_Equidistance ==
    (JustBuilt /\ totalDistance # Zero) =>
        LET interval == TargetOf(1)
            hi == RMul(RAdd(One, Tolerance), interval)
            cum == CumulativeDistances
        IN  \A k \in 0..(targetCount - 2) :
                /\ RLeq(SqStep(k), RMul(hi, hi))
                /\ OnOneSegment(cum, RMul(FromInt(k), interval),
                                RMul(FromInt(k + 1), interval))
                       => WithinTolerance(SqStep(k), interval)

\* a built output with two consecutive points on one source segment and two
\* with a change of direction between them, their distance below the interval
C4_Witness ==
    /\ JustBuilt
    /\ totalDistance # Zero
    /\ \E k \in 0..(targetCount - 2) :
           /\ OnOneSegment(CumulativeDistances, TargetOf(k), TargetOf(k + 1))
           /\ SqStep(k) # Zero
    /\ \E k \in 0..(targetCount - 2) :
           /\ ~OnOneSegment(CumulativeDistances, TargetOf(k), TargetOf(k + 1))
           /\ ~WithinTolerance(SqStep(k), TargetOf(1))

SameElevation(p, q) ==
    /\ p.Elevation.Valid = q.Elevation.Valid
    /\ p.Elevation.Value = q.Elevation.Value

\* C5: when the total path length is zero (all input points coincide), no
\* interpolation step runs and every output point equals the first input point
\* in latitude, longitude, elevation validity and elevation value; the built
\* output has targetCount such points.
C5_Degenerate ==
    /\ pc \in {"loop", "advance"} => totalDistance # Zero
    /\ (totalDistance = Zero /\ (pc \in {"zeroloop", "safeguard"} \/ Built)) =>
           /\ \A j \in 1..Len(sourcePoints) :
                  SamePosition(sourcePoints[j], sourcePoints[1])
           /\ \A k \in 1..Len(NewSegmentPoints) :
                  /\ SamePosition(NewSegmentPoints[k], sourcePoints[1])
                  /\ SameElevation(NewSegmentPoints[k], sourcePoints[1])
           /\ Built => Len(NewSegmentPoints) = targetCount
           /\ originalPointIndex = 0
           /\ cumulativeDistance = Zero
           /\ targetDistForCurrentPoint = Zero

\* a built output of coincident points whose elevations differ
C5_Witness ==
    /\ Built
    /\ totalDistance = Zero
    /\ Len(sourcePoints) = MaxPoints
    /\ sourcePoints[1].Elevation.Valid
    /\ \A j \in 2..Len(sourcePoints) : ~SameElevation(sourcePoints[j], sourcePoints[1])
    /\ Len(NewSegmentPoints) = MaxTargetCount

\* the input file parses to a GPX with a first track that has a first segment
WellFormed ==
    /\ inputFile.readable
    /\ inputFile.parseable
    /\ Len(inputFile.Tracks) > 0
    /\ Len(inputFile.Tracks[1].Segments) > 0

InputPoints == inputFile.Tracks[1].Segments[1].Points

\* C6: a path of 0 points or 1 point is never resampled and the call returns
\* the not-enough-points error; a path of exactly 2 points, distinct or
\* coincident, never returns an error about its input.
C6_InsufficientPoints ==
    WellFormed =>
        /\ Len(InputPoints) < 2 =>
               /\ pc \in {"read", "parse", "tracks", "segments", "points", "done"}
               /\ pc = "done" => err = "notenough"
        /\ Len(InputPoints) = 2 => err \notin InputErrors

\* the call has returned the error for a path of one point
C6_Witness ==
    /\ WellFormed
    /\ Len(InputPoints) = 1
    /\ pc = "done"
    /\ err = "notenough"

\* C7: the elevation of an interior output point between p1 and p2 with ratio
\* r is p1.ele + r*(p2.ele - p1.ele) when both elevations are valid, the one
\* valid elevation unmodified when one is valid, and invalid (never a valid 0)
\* when neither is valid.
C7_ElevationPolicy ==
    JustInterpolated =>
        LET p1 == At(sourcePoints, originalPointIndex)
            p2 == At(sourcePoints, originalPointIndex + 1)
            pt == At(NewSegmentPoints, i - 1)
            d == Distance2D(p1, p2)
            r == IF d = Zero THEN Zero
                 ELSE RDiv(RSub(TargetOf(i - 1), CumulativeTo(originalPointIndex)), d)
            e1 == p1.Elevation
            e2 == p2.Elevation
        IN  /\ (e1.Valid /\ e2.Valid) =>
                   /\ pt.Elevation.Valid
                   /\ pt.Elevation.Value =
                          RAdd(e1.Value, RMul(r, RSub(e2.Value, e1.Value)))
            /\ (e1.Valid /\ ~e2.Valid) =>
                   pt.Elevation.Valid /\ pt.Elevation.Value = e1.Value
            /\ (~e1.Valid /\ e2.Valid) =>
                   pt.Elevation.Valid /\ pt.Elevation.Value = e2.Value
            /\ (~e1.Valid /\ ~e2.Valid) =>
                   ~pt.Elevation.Valid /\ pt.Elevation.Value = Zero

\* an interior point with an elevation strictly between two valid elevations
C7_Witness ==
    /\ JustInterpolated
    /\ LET p1 == At(sourcePoints, originalPointIndex)
           p2 == At(sourcePoints, originalPointIndex + 1)
           pt == At(NewSegmentPoints, i - 1)
       IN  /\ p1.Elevation.Valid /\ p2.Elevation.Valid
           /\ RLess(p1.Elevation.Value, pt.Elevation.Value)
           /\ RLess(pt.Elevation.Value, p2.Elevation.Value)

\* C8: an interior output point carries the timestamp of p1, the source point
\* at the cursor, and every output timestamp is the timestamp of some source
\* point.
C8_Timestamp ==
    /\ JustInterpolated =>
           At(NewSegmentPoints, i - 1).Timestamp =
               At(sourcePoints, originalPointIndex).Timestamp
    /\ Len(newGpx.Tracks) > 0 =>
           \A k \in 1..Len(NewSegmentPoints) :
               \E j \in 1..Len(sourcePoints) :
                   NewSegmentPoints[k].Timestamp = sourcePoints[j].Timestamp

\* an interior point strictly inside the second segment with the timestamp of
\* the second source point
C8_Witness ==
    /\ JustInterpolated
    /\ originalPointIndex = 1
    /\ RLess(CumulativeTo(1), TargetOf(i - 1))
    /\ At(NewSegmentPoints, i - 1).Timestamp = At(sourcePoints, 1).Timestamp
    /\ At(NewSegmentPoints, i - 1).Timestamp # At(sourcePoints, 2).Timestamp
    /\ At(NewSegmentPoints, i - 1).Timestamp # At(sourcePoints, 0).Timestamp

\* the number of outcome lines (error or success) logged for files[k]
Reports(k) == CopiesIn(<<"Error", k>>, log) + CopiesIn(<<"Success", k>>, log)

\* C9: every listed file is processed by its own goroutine, whose outcome is
\* logged exactly once, as an error exactly when normalizeGPX returned one; a
\* running goroutine can always take its next step, whatever the others have
\* done; "All GPX files processed" is logged only after every goroutine is done.
C9_BatchDriver ==
    /\ \A k \in 1..Len(files) :
           LET w == workers[k]
           IN  /\ w.pc # "unborn" => w.file = files[k]
               /\ Reports(k) = IF w.pc \in {"deferred", "done"} THEN 1 ELSE 0
               /\ CopiesIn(<<"Error", k>>, log) = 1 => w.err # "none"
               /\ CopiesIn(<<"Success", k>>, log) = 1 => w.err = "none"
               /\ w.pc \notin {"unborn", "done"} => ENABLED WorkerStep(k)
    /\ wg = Cardinality({k \in 1..Len(files) : workers[k].pc \notin {"unborn", "done"}})
    /\ mainPc \in {"final", "returned"} =>
           \A k \in 1..Len(files) : workers[k].pc = "done" /\ Reports(k) = 1
    /\ CopiesIn(<<"All", 0>>, log) = IF mainPc = "returned" THEN 1 ELSE 0

\* main has returned after the goroutine of the first file has failed and the
\* goroutine of the last file has succeeded
C9_Witness ==
    /\ mainPc = "returned"
    /\ Len(files) = MaxFiles
    /\ workers[1].err # "none"
    /\ workers[MaxFiles].err = "none"
    /\ CopiesIn(<<"Error", 1>>, log) = 1
    /\ CopiesIn(<<"Success", MaxFiles>>, log) = 1
    /\ fs[OutputFileOf(files[MaxFiles])] = "normalized"

\* the output file is as it was before the call
Unmodified == outputFile.state \in {"absent", "stale"}

\* C10: when normalizeGPX returns an error about its input the output file has
\* not been written or modified; the write step is reached only with a
\* complete output of targetCount points and no error.
C10_NoPartialWrite ==
    /\ (pc = "done" /\ err \in InputErrors) => Unmodified
    /\ pc = "write" => err = "none" /\ Len(NewSegmentPoints) = targetCount
    /\ ~Unmodified => pc = "done" /\ err \in {"none", "write"}

\* the call has returned the not-enough-points error and the file that was at
\* the output path is still there
C10_Witness ==
    /\ pc = "done"
    /\ err = "notenough"
    /\ outputFile.state = "stale"
    /\ WellFormed

\* pt lies on the polyline through points
OnPolyline(pt, points) ==
    \E j \in 1..(Len(points) - 1) : OnSegment(pt, points[j], points[j + 1])

\* the GPX object has exactly one track with exactly one segment
OneTrackOneSegment(gpx) ==
    /\ Len(gpx.Tracks) = 1
    /\ Len(gpx.Tracks[1].Segments) = 1

\* C11: only the first segment of the first track is processed: sourcePoints
\* is that segment whatever further segments and tracks the input has, the
\* built and the written GPX have exactly one track with exactly one segment,
\* every point of it lies on the polyline of that first segment and carries
\* the timestamp of one of its points; an input without tracks, or whose
\* first track has no segments, yields an error.
C11_FirstSegmentOnly ==
    /\ (pc = "done" /\ inputFile.readable /\ inputFile.parseable) =>
           /\ Len(inputFile.Tracks) = 0 => err = "notracks"
           /\ (Len(inputFile.Tracks) > 0 /\ Len(inputFile.Tracks[1].Segments) = 0)
                  => err = "nosegments"
    /\ (pc \notin {"read", "parse", "tracks", "segments", "done"}
            \/ (pc = "done" /\ err \notin {"read", "parse", "notracks", "nosegments"})) =>
           /\ WellFormed
           /\ sourcePoints = InputPoints
    /\ Len(newGpx.Tracks) <= 1
    /\ JustBuilt =>
           /\ OneTrackOneSegment(newGpx)
           /\ \A k \in 1..Len(NewSegmentPoints) :
                  /\ OnPolyline(NewSegmentPoints[k], InputPoints)
                  /\ \E j \in 1..Len(InputPoints) :
                         NewSegmentPoints[k].Timestamp = InputPoints[j].Timestamp
    /\ Succeeded => OneTrackOneSegment(outputFile.gpx) /\ outputFile.gpx = newGpx

\* a successful call on an input with two tracks, the first with two segments
\* and a first segment of positive length
C11_Witness ==
    /\ Succeeded
    /\ Len(inputFile.Tracks) = 2
    /\ Len(inputFile.Tracks[1].Segments) = 2
    /\ Len(InputPoints) = MaxPoints
    /\ totalDistance # Zero
    /\ OneTrackOneSegment(outputFile.gpx)

\* control is in the loop of the general case
InGeneralLoop == pc \in {"loop", "advance"}

\* the cursor is at an existing segment and cumulativeDistance is the path
\* distance to its first point
CursorInRange ==
    InGeneralLoop =>
        /\ 0 <= originalPointIndex
        /\ originalPointIndex <= Len(sourcePoints) - 2
        /\ cumulativeDistance = CumulativeTo(originalPointIndex)

\* C12: every step of the general-case loop starts with the cursor within
\* 0..len(sourcePoints)-2 (so p2 exists) and with cumulativeDistance the sum of
\* the lengths of the segments before it, and no step within the loop
\* decreases the cursor.
C12_CursorInvariant ==
    [][/\ CursorInRange
       /\ (InGeneralLoop /\ InGeneralLoop') => originalPointIndex' >= originalPointIndex]_vars

\* the inner loop has advanced the cursor to the last segment of a path with
\* the largest number of points
C12_Witness ==
    /\ pc = "advance"
    /\ Len(sourcePoints) = MaxPoints
    /\ originalPointIndex = Len(sourcePoints) - 2
    /\ originalPointIndex >= 1
    /\ cumulativeDistance # Zero
    /\ cumulativeDistance = CumulativeTo(originalPointIndex)

\* control has left the loops and is about to run the safeguard
AtSafeguard == pc = "safeguard"

\* C13: whenever control reaches the safeguard after the loops, the input has
\* at least two points and the output already has exactly numTargetPoints
\* points, so that neither the padding nor the truncation changes it.
C13_SafeguardNoOp ==
    AtSafeguard =>
        /\ Len(sourcePoints) >= 2
        /\ Len(NewSegmentPoints) = targetCount
        /\ ~(Len(NewSegmentPoints) < targetCount)
        /\ ~(Len(NewSegmentPoints) > targetCount)
        /\ Safeguarded(NewSegmentPoints, targetCount, Len(sourcePoints))
               = NewSegmentPoints

\* the general-case loop has ended on a path of positive length with the
\* largest number of points and the largest target count
C13_Witness ==
    /\ AtSafeguard
    /\ totalDistance # Zero
    /\ Len(sourcePoints) = MaxPoints
    /\ targetCount = MaxTargetCount
    /\ i = targetCount
    /\ Len(NewSegmentPoints) = MaxTargetCount

\* the goroutine of files[k] has been started and has not returned
Running(k) == workers[k].pc \notin {"unborn", "done"}

\* the goroutine of files[k] is inside os.WriteFile: its output file is open
\* and truncated, the XML not yet written
Writing(k) == workers[k].pc = "write"

\* the goroutine of files[k] is about to read its input file
Reading(k) == workers[k].pc = "read"

\* C14: no file is written by one goroutine while a different running
\* goroutine reads or writes it: the output path of a goroutine differs from
\* the input path and from the output path of every other running goroutine,
\* whatever the list of file arguments.
C14_IndependentFiles ==
    \A j, k \in 1..Len(files) :
        (j # k /\ Running(j) /\ Running(k)) =>
            /\ OutputFileOf(workers[k].file) # workers[j].file
            /\ OutputFileOf(workers[k].file) # OutputFileOf(workers[j].file)
            /\ Writing(k) => ~(Reading(j) /\ workers[j].file = workers[k].outputFile)
            /\ Writing(k) => ~(Writing(j) /\ workers[j].outputFile = workers[k].outputFile)

\* a goroutine has read its input while another goroutine had it open for
\* writing, and rejects the truncated file
C14_Witness ==
    \E j, k \in 1..Len(files) :
        /\ j # k
        /\ workers[j].data = "truncated"
        /\ workers[j].err = "input"
        /\ workers[j].file = workers[k].outputFile
        /\ Running(k)

====
